---- MODULE Spec2Model ----
(***************************************************************************)
(* The broadcast audio source of apps/scanner/src/main.c: the main thread  *)
(* (startup steps, startup barrier, credit seeding), the encoder thread    *)
(* (init_lc3_thread, send_data), the stream callbacks (started, sent) and  *)
(* the ISO transport that accepts or rejects buffers and later confirms    *)
(* them.                                                                   *)
(***************************************************************************)
EXTENDS Integers, Sequences, FiniteSets, TLC

\* ------------------------------------------------------------------ bounds
\* CONFIG_BT_BAP_BROADCAST_SRC_STREAM_COUNT: ARRAY_SIZE(streams)
STREAM_COUNT == 2
\* cycles of the encoder loop the model follows
MaxCycles == 5

\* ------------------------------------------------------- program constants
BROADCAST_ENQUEUE_COUNT == 3
TOTAL_BUF_NEEDED == BROADCAST_ENQUEUE_COUNT * STREAM_COUNT
U16 == 65536

Streams == 0 .. (STREAM_COUNT - 1)

\* The outcomes of resolving preset_active.codec_cfg in init_lc3_thread.
CodecCfgs == {"valid", "no_freq", "no_frame_dur", "no_octets", "lc3_unsupported"}

\* The steps of main() in program order, up to the start of the broadcast.
MainSteps ==
    << "bt_enable", "k_thread_start", "bt_le_ext_adv_create",
       "bt_le_per_adv_set_param", "setup_broadcast_source", "bt_rand",
       "bt_le_ext_adv_set_data", "bt_bap_broadcast_source_get_base",
       "bt_le_per_adv_set_data", "bt_le_ext_adv_start", "bt_le_per_adv_start",
       "bt_bap_broadcast_source_start" >>

StartupSteps == { MainSteps[k] : k \in 1 .. Len(MainSteps) }

\* The step main() goes to when step `step` succeeded.
StepAfter(step) ==
    LET k == CHOOSE n \in 1 .. Len(MainSteps) : MainSteps[n] = step
    IN  IF k = Len(MainSteps) THEN "wait_started" ELSE MainSteps[k + 1]

VARIABLES
    codec_cfg,        \* what preset_active.codec_cfg resolves to (configuration)
    main_pc,          \* main(): a step of MainSteps, or "wait_started", "seed", "sleep", "returned"
    main_i,           \* main(): loop index i
    main_j,           \* main(): loop index j of the seeding loop
    enc_pc,           \* encoder thread: "not_started", "init", "setup", "take", "send", "returned"
    enc_i,            \* encoder thread: loop index i
    seq_num,          \* streams[i].seq_num (uint16_t)
    sent_cnt,         \* streams[i].sent_cnt (size_t)
    lc3_encoder,      \* streams[i].lc3_encoder: "NULL" or "set"
    tx_pool,          \* free buffers of tx_pool
    sem_started,      \* count of sem_started
    lc3_encoder_sem,  \* count of lc3_encoder_sem
    bis_started,      \* transport: the started callback of stream i was delivered
    iso_pending,      \* transport: buffers of stream i accepted, sent callback not yet delivered
    sent_log,         \* history: the sequence numbers passed to bt_bap_stream_send, per stream
    cycles,           \* history: completed passes of the encoder loop
    enc_errs,         \* history: lc3_encode failures per stream
    rejects,          \* history: bt_bap_stream_send rejections per stream
    give_dropped,     \* history: a k_sem_give of lc3_encoder_sem found it at its limit
    attempts,         \* history: send_data calls per stream
    takes,            \* history: completed k_sem_take calls on lc3_encoder_sem
    main_err,         \* history: the step of main() that failed, or "none"
    stop_cycle,       \* environment: the value of cycles when an external stop was requested, or -1
    setup,            \* setup_broadcast_source: its position pc, ARRAY_SIZE(stream_params) S,
                      \* ARRAY_SIZE(subgroup_param) G, and per subgroup_param[i] the
                      \* indices of stream_params it points at
    capture,          \* the USB capture path: streams[i].audio_ring_buf (unread bytes, oldest
                      \* first), send_pcm_data (as bytes), the bytes of usb_pcm_data[i] put by
                      \* the last data_received, its static count, and as history the
                      \* overflow messages printed per stream, the shortfalls reported and
                      \* the stream of the last send_data fill (or -1)
    scanner           \* broadcast_scan_recv: its position pc, the advertiser adv_info, sr_info,
                      \* the fields of ad not yet parsed, and as history the last field
                      \* parsed, the broadcast_source_found calls made and the reports logged

vars ==
    << codec_cfg, main_pc, main_i, main_j, enc_pc, enc_i, seq_num, sent_cnt,
       lc3_encoder, tx_pool, sem_started, lc3_encoder_sem, bis_started,
       iso_pending, sent_log, cycles, enc_errs, rejects, give_dropped,
       attempts, takes, main_err, stop_cycle, setup, capture, scanner >>

\* The functions checked on their own, under their own specifications.
unit_vars == << setup, capture, scanner >>

\* What no thread and no callback of the broadcast source changes.
other_vars == << stop_cycle, unit_vars >>

main_vars == << main_pc, main_i, main_j, main_err >>
enc_vars == << enc_pc, enc_i >>
stream_vars == << seq_num, sent_cnt >>
hist_vars == << sent_log, cycles, enc_errs, rejects >>
loop_hist == << attempts, takes >>

\* Everything of the broadcast source's threads and callbacks.
source_vars ==
    << codec_cfg, stop_cycle, main_vars, enc_vars, stream_vars, hist_vars,
       loop_hist, lc3_encoder, tx_pool, sem_started, lc3_encoder_sem,
       bis_started, iso_pending, give_dropped >>

\* ------------------------------------------------------------- semaphores
\* k_sem_give: the count goes up by one unless it is at the limit.
k_sem_give(count, limit) == IF count < limit THEN count + 1 ELSE count

\* The state of the broadcast source when main() is entered.
CoreStart ==
    /\ main_pc = MainSteps[1]
    /\ main_i = 0
    /\ main_j = 0
    /\ enc_pc = "not_started"
    /\ enc_i = 0
    /\ seq_num = [s \in Streams |-> 0]
    /\ sent_cnt = [s \in Streams |-> 0]
    /\ lc3_encoder = [s \in Streams |-> "NULL"]
    /\ tx_pool = TOTAL_BUF_NEEDED
    /\ sem_started = 0
    /\ lc3_encoder_sem = 0
    /\ bis_started = [s \in Streams |-> FALSE]
    /\ iso_pending = [s \in Streams |-> 0]
    /\ sent_log = [s \in Streams |-> << >>]
    /\ cycles = 0
    /\ enc_errs = [s \in Streams |-> 0]
    /\ rejects = [s \in Streams |-> 0]
    /\ give_dropped = FALSE
    /\ attempts = [s \in Streams |-> 0]
    /\ takes = 0
    /\ main_err = "none"
    /\ stop_cycle = -1

\* ------------------------------------------------ the USB capture path
\* Scaled down: the build has 16 samples per USB frame, 20 USB frames per
\* ring buffer and 160 samples per PCM frame.
USB_NUM_SAMPLES == 2
RING_BUF_USB_FRAMES == 2
MAX_NUM_SAMPLES == 3
MaxUsbCallbacks == 3

USB_SAMPLE_RATE == 48000
BROADCAST_SAMPLE_RATE == 16000
USB_DOWNSAMPLE_RATE == BROADCAST_SAMPLE_RATE
USB_BYTES_PER_SAMPLE == 2
USB_CHANNELS == 2
AUDIO_RING_BUF_BYTES == USB_NUM_SAMPLES * USB_BYTES_PER_SAMPLE * RING_BUF_USB_FRAMES

\* sizeof(send_pcm_data): int16_t send_pcm_data[MAX_NUM_SAMPLES].
sizeof_send_pcm_data == MAX_NUM_SAMPLES * 2

Min(a, b) == IF a < b THEN a ELSE b

\* An array of int16_t seen through a (uint8_t *) cast, little-endian.
Int16Bytes(samples) ==
    [k \in 1..(2 * Len(samples)) |->
        IF k % 2 = 1 THEN samples[(k + 1) \div 2] % 256
                     ELSE samples[k \div 2] \div 256]

Zeros(n) == [k \in 1..n |-> 0]

\* The capture path after main has initialised it: mock data in
\* send_pcm_data, every ring buffer empty.
FeedStart ==
    capture =
        [audio_ring_buf |-> [s \in Streams |-> << >>],
         send_pcm_data |-> Int16Bytes([i \in 1..MAX_NUM_SAMPLES |-> i - 1]),
         usb_pcm_data |-> [c \in 0..(USB_CHANNELS - 1) |-> << >>],
         count |-> 0,
         overflow_reports |-> [s \in Streams |-> 0],
         shortfall_reports |-> 0,
         fill_stream |-> -1]

\* ------------------------------------------------------- the scanner
\* struct bt_scan_recv_info sr_info = { 0 }; broadcast_name is held as the C
\* string it contains, the bytes before its first NUL.
sr_info_zero == [broadcast_id |-> 0, broadcast_name |-> << >>]

ScanStart ==
    scanner =
        [pc |-> "idle",
         adv_info |-> [adv_props |-> 0, interval |-> 0],
         sr_info |-> sr_info_zero,
         ad_left |-> 0,
         last_field |-> [type |-> 0, data |-> << >>],
         parsed |-> 0,
         reports |-> 0]

\* --------------------------------------------- setup_broadcast_source
\* Before setup_broadcast_source runs.
SubgroupIdle == setup = [pc |-> "idle", S |-> 0, G |-> 0, subgroup_param |-> << >>]

Init ==
    /\ codec_cfg \in CodecCfgs
    /\ CoreStart
    /\ SubgroupIdle
    /\ FeedStart
    /\ ScanStart

\* ------------------------------------------------------------- callbacks
\* Mutant of stream_sent_cb: two gives for one notification.
stream_sent_cb_double ==
    /\ lc3_encoder_sem' = k_sem_give(k_sem_give(lc3_encoder_sem, TOTAL_BUF_NEEDED),
                                     TOTAL_BUF_NEEDED)
    /\ give_dropped' = (give_dropped \/ lc3_encoder_sem + 1 >= TOTAL_BUF_NEEDED)

\* Mutant of stream_sent_cb: the give is missing.
stream_sent_cb_no_give ==
    /\ lc3_encoder_sem' = lc3_encoder_sem
    /\ give_dropped' = give_dropped

\* stream_sent_cb: one give of lc3_encoder_sem.
stream_sent_cb ==
    /\ lc3_encoder_sem' = k_sem_give(lc3_encoder_sem, TOTAL_BUF_NEEDED)
    /\ give_dropped' = (give_dropped \/ lc3_encoder_sem >= TOTAL_BUF_NEEDED)

\* stream_started_cb: the counters are reset and sem_started is given.
stream_started_cb(s) ==
    /\ seq_num' = [seq_num EXCEPT ![s] = 0]
    /\ sent_cnt' = [sent_cnt EXCEPT ![s] = 0]
    /\ sem_started' = k_sem_give(sem_started, STREAM_COUNT)

\* The transport delivers the started callback of stream s, once, after
\* bt_bap_broadcast_source_start succeeded.
TransportStarted(s) ==
    /\ main_pc \in {"wait_started", "seed", "sleep"}
    /\ ~bis_started[s]
    /\ bis_started' = [bis_started EXCEPT ![s] = TRUE]
    /\ stream_started_cb(s)
    /\ UNCHANGED << codec_cfg, other_vars, main_vars, enc_vars, lc3_encoder, tx_pool,
                    lc3_encoder_sem, iso_pending, hist_vars, give_dropped,
                    loop_hist >>

\* The transport has sent one accepted buffer of stream s: it frees the
\* buffer and delivers the sent callback.
TransportSent(s) ==
    /\ iso_pending[s] > 0
    /\ iso_pending' = [iso_pending EXCEPT ![s] = @ - 1]
    /\ tx_pool' = tx_pool + 1
    /\ stream_sent_cb
    /\ UNCHANGED << codec_cfg, other_vars, main_vars, enc_vars, stream_vars, lc3_encoder,
                    sem_started, bis_started, hist_vars, loop_hist >>

\* ------------------------------------------------------------------ main
\* Mutant of MainStartupStep: the error of a step is reported and main goes on.
MainStartupStep_ignore_error ==
    /\ main_pc \in StartupSteps
    /\ \E ok \in BOOLEAN :
        /\ (main_pc = "k_thread_start") => ok
        /\ main_pc' = StepAfter(main_pc)
        /\ main_err' = IF ok THEN main_err ELSE main_pc
        /\ enc_pc' = IF main_pc = "k_thread_start" THEN "init" ELSE enc_pc
    /\ UNCHANGED << codec_cfg, other_vars, main_i, main_j, enc_i, stream_vars, lc3_encoder,
                    tx_pool, sem_started, lc3_encoder_sem, bis_started,
                    iso_pending, hist_vars, give_dropped, loop_hist >>

\* One startup step of main(): it succeeds and main goes on, or it fails and
\* main returns. k_thread_start(encoder) cannot fail and starts the thread.
MainStartupStep ==
    /\ main_pc \in StartupSteps
    /\ \E ok \in BOOLEAN :
        /\ (main_pc = "k_thread_start") => ok
        /\ main_pc' = IF ok THEN StepAfter(main_pc) ELSE "returned"
        /\ main_err' = IF ok THEN main_err ELSE main_pc
        /\ enc_pc' = IF main_pc = "k_thread_start" THEN "init" ELSE enc_pc
    /\ UNCHANGED << codec_cfg, other_vars, main_i, main_j, enc_i, stream_vars, lc3_encoder,
                    tx_pool, sem_started, lc3_encoder_sem, bis_started,
                    iso_pending, hist_vars, give_dropped, loop_hist >>

\* Mutant of StartupBarrierTakes: the barrier waits for one signal too few.
StartupBarrierTakes_short == STREAM_COUNT - 1

\* How many takes of sem_started the startup barrier makes.
StartupBarrierTakes == STREAM_COUNT

\* "Wait for all to be started": one k_sem_take(&sem_started, K_FOREVER).
MainWaitStarted ==
    /\ main_pc = "wait_started"
    /\ sem_started > 0
    /\ sem_started' = sem_started - 1
    /\ IF main_i + 1 < StartupBarrierTakes
       THEN main_i' = main_i + 1 /\ main_pc' = main_pc
       ELSE main_i' = 0 /\ main_pc' = "seed"
    /\ UNCHANGED << codec_cfg, other_vars, main_j, main_err, enc_vars, stream_vars,
                    lc3_encoder, tx_pool, lc3_encoder_sem, bis_started,
                    iso_pending, hist_vars, give_dropped, loop_hist >>

\* "Initialize sending": one stream_sent_cb(&streams[i].stream) of the
\* nested loops over i and j.
MainSeed ==
    /\ main_pc = "seed"
    /\ stream_sent_cb
    /\ IF main_j + 1 < BROADCAST_ENQUEUE_COUNT
       THEN main_j' = main_j + 1 /\ main_i' = main_i /\ main_pc' = main_pc
       ELSE /\ main_j' = 0
            /\ IF main_i + 1 < STREAM_COUNT
               THEN main_i' = main_i + 1 /\ main_pc' = main_pc
               ELSE main_i' = 0 /\ main_pc' = "sleep"
    /\ UNCHANGED << codec_cfg, other_vars, main_err, enc_vars, stream_vars, lc3_encoder,
                    tx_pool, sem_started, bis_started, iso_pending, hist_vars,
                    loop_hist >>

\* -------------------------------------------------------- encoder thread
\* init_lc3_thread up to the encoder loop: the codec parameters are resolved
\* from preset_active.codec_cfg; an unresolved one makes the thread return.
EncoderInit ==
    /\ enc_pc = "init"
    /\ enc_pc' = IF codec_cfg \in {"no_freq", "no_frame_dur", "no_octets"}
                 THEN "returned" ELSE "setup"
    /\ enc_i' = 0
    /\ UNCHANGED << codec_cfg, other_vars, main_vars, stream_vars, lc3_encoder, tx_pool,
                    sem_started, lc3_encoder_sem, bis_started, iso_pending,
                    hist_vars, give_dropped, loop_hist >>

\* lc3_setup_encoder: NULL when the parameters are not supported.
lc3_setup_encoder == IF codec_cfg = "lc3_unsupported" THEN "NULL" ELSE "set"

\* "Create the encoder instance": one pass of the loop over streams; a NULL
\* encoder is reported and the loop goes on.
EncoderSetup ==
    /\ enc_pc = "setup"
    /\ lc3_encoder' = [lc3_encoder EXCEPT ![enc_i] = lc3_setup_encoder]
    /\ IF enc_i + 1 < STREAM_COUNT
       THEN enc_i' = enc_i + 1 /\ enc_pc' = enc_pc
       ELSE enc_i' = 0 /\ enc_pc' = "take"
    /\ UNCHANGED << codec_cfg, other_vars, main_vars, stream_vars, tx_pool, sem_started,
                    lc3_encoder_sem, bis_started, iso_pending, hist_vars,
                    give_dropped, loop_hist >>

\* Mutant of EncoderTake: one take per cycle instead of one per stream.
EncoderTake_once ==
    /\ enc_pc = "take"
    /\ lc3_encoder_sem > 0
    /\ lc3_encoder_sem' = lc3_encoder_sem - 1
    /\ enc_i' = 0 /\ enc_pc' = "send"
    /\ takes' = takes + 1
    /\ UNCHANGED << codec_cfg, other_vars, main_vars, stream_vars, lc3_encoder, tx_pool,
                    sem_started, bis_started, iso_pending, hist_vars,
                    give_dropped, attempts >>

\* The first loop of a cycle: one k_sem_take(&lc3_encoder_sem, K_FOREVER).
EncoderTake ==
    /\ enc_pc = "take"
    /\ lc3_encoder_sem > 0
    /\ lc3_encoder_sem' = lc3_encoder_sem - 1
    /\ IF enc_i + 1 < STREAM_COUNT
       THEN enc_i' = enc_i + 1 /\ enc_pc' = enc_pc
       ELSE enc_i' = 0 /\ enc_pc' = "send"
    /\ takes' = takes + 1
    /\ UNCHANGED << codec_cfg, other_vars, main_vars, stream_vars, lc3_encoder, tx_pool,
                    sem_started, bis_started, iso_pending, hist_vars,
                    give_dropped, attempts >>

\* send_data with lc3_encoder == NULL: the buffer is returned, nothing is sent.
send_data_no_encoder(s) ==
    /\ tx_pool' = tx_pool
    /\ UNCHANGED << stream_vars, iso_pending, sent_log, enc_errs, rejects >>

\* Mutant of send_data_encode_error: the net_buf_unref is missing.
send_data_encode_error_leak(s) ==
    /\ tx_pool' = tx_pool - 1
    /\ enc_errs' = [enc_errs EXCEPT ![s] = @ + 1]
    /\ UNCHANGED << stream_vars, iso_pending, sent_log, rejects >>

\* send_data when lc3_encode returns -1: the buffer is returned, nothing is sent.
send_data_encode_error(s) ==
    /\ tx_pool' = tx_pool
    /\ enc_errs' = [enc_errs EXCEPT ![s] = @ + 1]
    /\ UNCHANGED << stream_vars, iso_pending, sent_log, rejects >>

\* Mutant of send_data_rejected: the net_buf_unref is missing.
send_data_rejected_leak(s) ==
    /\ sent_log' = [sent_log EXCEPT ![s] = Append(@, seq_num[s])]
    /\ seq_num' = [seq_num EXCEPT ![s] = (@ + 1) % U16]
    /\ tx_pool' = tx_pool - 1
    /\ rejects' = [rejects EXCEPT ![s] = @ + 1]
    /\ UNCHANGED << sent_cnt, iso_pending, enc_errs >>

\* send_data when bt_bap_stream_send(stream, buf, seq_num++) returns < 0: the
\* sequence number was already advanced, the buffer is returned.
send_data_rejected(s) ==
    /\ sent_log' = [sent_log EXCEPT ![s] = Append(@, seq_num[s])]
    /\ seq_num' = [seq_num EXCEPT ![s] = (@ + 1) % U16]
    /\ tx_pool' = tx_pool
    /\ rejects' = [rejects EXCEPT ![s] = @ + 1]
    /\ UNCHANGED << sent_cnt, iso_pending, enc_errs >>

\* Mutant of send_data_accepted: seq_num is not advanced.
send_data_accepted_no_seq(s) ==
    /\ sent_log' = [sent_log EXCEPT ![s] = Append(@, seq_num[s])]
    /\ seq_num' = seq_num
    /\ sent_cnt' = [sent_cnt EXCEPT ![s] = @ + 1]
    /\ tx_pool' = tx_pool - 1
    /\ iso_pending' = [iso_pending EXCEPT ![s] = @ + 1]
    /\ UNCHANGED << enc_errs, rejects >>

\* Mutant of send_data_accepted: sent_cnt is not advanced.
send_data_accepted_no_count(s) ==
    /\ sent_log' = [sent_log EXCEPT ![s] = Append(@, seq_num[s])]
    /\ seq_num' = [seq_num EXCEPT ![s] = (@ + 1) % U16]
    /\ sent_cnt' = sent_cnt
    /\ tx_pool' = tx_pool - 1
    /\ iso_pending' = [iso_pending EXCEPT ![s] = @ + 1]
    /\ UNCHANGED << enc_errs, rejects >>

\* send_data when the transport accepts the buffer: it keeps the buffer
\* until it has sent it, and sent_cnt is advanced (a size_t: it does not wrap
\* within MaxCycles).
send_data_accepted(s) ==
    /\ sent_log' = [sent_log EXCEPT ![s] = Append(@, seq_num[s])]
    /\ seq_num' = [seq_num EXCEPT ![s] = (@ + 1) % U16]
    /\ sent_cnt' = [sent_cnt EXCEPT ![s] = @ + 1]
    /\ tx_pool' = tx_pool - 1
    /\ iso_pending' = [iso_pending EXCEPT ![s] = @ + 1]
    /\ UNCHANGED << enc_errs, rejects >>

\* send_data(&streams[s]): net_buf_alloc(&tx_pool, K_FOREVER) waits for a
\* free buffer; then one of the four exits.
send_data(s) ==
    /\ tx_pool > 0
    /\ IF lc3_encoder[s] = "NULL"
       THEN send_data_no_encoder(s)
       ELSE \/ send_data_encode_error(s)
            \/ send_data_rejected(s)
            \/ send_data_accepted(s)

\* The second loop of a cycle: send_data(&streams[i]); after the last stream
\* the while (true) loop starts its next pass.
EncoderSend ==
    /\ enc_pc = "send"
    /\ enc_i > 0 \/ cycles < MaxCycles
    /\ send_data(enc_i)
    /\ attempts' = [attempts EXCEPT ![enc_i] = @ + 1]
    /\ IF enc_i + 1 < STREAM_COUNT
       THEN enc_i' = enc_i + 1 /\ enc_pc' = enc_pc /\ cycles' = cycles
       ELSE enc_i' = 0 /\ enc_pc' = "take" /\ cycles' = cycles + 1
    /\ UNCHANGED << codec_cfg, other_vars, main_vars, lc3_encoder, sem_started,
                    lc3_encoder_sem, bis_started, give_dropped, takes >>

\* ------------------------------------------------------------ the system
Next ==
    \/ MainStartupStep
    \/ MainWaitStarted
    \/ MainSeed
    \/ EncoderInit
    \/ EncoderSetup
    \/ EncoderTake
    \/ EncoderSend
    \/ \E s \in Streams : TransportStarted(s)
    \/ \E s \in Streams : TransportSent(s)

Spec == Init /\ [][Next]_vars

\* An external stop request arrives while main sleeps in k_sleep(K_FOREVER).
\* Nothing in the program reads it.
StopRequest ==
    /\ main_pc = "sleep"
    /\ stop_cycle = -1
    /\ stop_cycle' = cycles
    /\ UNCHANGED << codec_cfg, unit_vars, main_vars, enc_vars, stream_vars, lc3_encoder,
                    tx_pool, sem_started, lc3_encoder_sem, bis_started,
                    iso_pending, hist_vars, give_dropped, loop_hist >>

NextStop ==
    \/ Next
    \/ StopRequest

\* The broadcast source with an operator who may ask it to stop.
StopSpec == Init /\ [][NextStop]_vars

\* The scheduling the code relies on: main and the encoder thread run when
\* they are ready (the kernel schedules every ready thread; main sleeps
\* after seeding), and the transport confirms every buffer it accepted.
\* The started callbacks and the outcome of a step are left to the transport.
FairSpec ==
    /\ Init
    /\ [][Next]_vars
    /\ WF_vars(MainWaitStarted)
    /\ WF_vars(MainSeed)
    /\ WF_vars(EncoderInit)
    /\ WF_vars(EncoderSetup)
    /\ WF_vars(EncoderTake)
    /\ WF_vars(EncoderSend)
    /\ \A s \in Streams : WF_vars(TransportSent(s))

\* ---------------------------------------------------- derived quantities
RECURSIVE SumTo(_, _)
SumTo(f, n) == IF n < 0 THEN 0 ELSE f[n] + SumTo(f, n - 1)

\* Buffers accepted by the transport and not yet confirmed, all streams.
PendingTotal == SumTo(iso_pending, STREAM_COUNT - 1)

\* Credits the encoder thread has taken in this cycle and not yet spent on a
\* send_data call.
CreditsHeld ==
    IF enc_pc = "take" THEN enc_i
    ELSE IF enc_pc = "send" THEN STREAM_COUNT - enc_i
    ELSE 0

\* The stream_sent_cb calls main has made so far in "Initialize sending".
SeedsGiven ==
    IF main_pc = "seed" THEN main_i * BROADCAST_ENQUEUE_COUNT + main_j
    ELSE IF main_pc = "sleep" THEN TOTAL_BUF_NEEDED
    ELSE 0

AllStarted == \A s \in Streams : bis_started[s]

\* No encode error, no transport rejection, and the codec configuration
\* resolved to a working encoder.
FaultFree ==
    /\ codec_cfg = "valid"
    /\ \A s \in Streams : enc_errs[s] = 0 /\ rejects[s] = 0

\* The run 0, 1, 2, ... modulo 2^16.
ContiguousFromZero(log) == \A k \in 1 .. Len(log) : log[k] = (k - 1) % U16

\* The encoder thread waits in k_sem_take(&lc3_encoder_sem, K_FOREVER) and
\* no give can come any more: main has finished seeding and the transport
\* holds no buffer whose sent callback is outstanding.
Stalled ==
    /\ enc_pc = "take"
    /\ lc3_encoder_sem = 0
    /\ main_pc = "sleep"
    /\ \A s \in Streams : iso_pending[s] = 0

\* ----------------------------------------------------------------- claims

\* C1: under fault-free operation the sequence numbers passed to
\* bt_bap_stream_send for a stream are the run 0, 1, 2, ... (mod 2^16), with
\* no gap and no repeat, and the first of them follows the stream's started
\* callback.
C1_ContiguousSeqNums ==
    FaultFree =>
        \A s \in Streams :
            /\ ContiguousFromZero(sent_log[s])
            /\ seq_num[s] = Len(sent_log[s]) % U16
            /\ (sent_log[s] # << >>) => bis_started[s]

C1_Witness ==
    /\ FaultFree
    /\ \A s \in Streams : Len(sent_log[s]) >= 3

\* C2: for every stream, the buffers accepted by the transport and not yet
\* confirmed by a sent callback never exceed BROADCAST_ENQUEUE_COUNT.
C2_PerStreamCredit ==
    \A s \in Streams : iso_pending[s] <= BROADCAST_ENQUEUE_COUNT

\* C3: transmission is released (a credit is seeded, or the encoder thread
\* gets to a send) only when every stream has signalled started, and once
\* every stream has signalled started main seeds all the credits.
TransmissionReleased ==
    \/ SeedsGiven > 0
    \/ lc3_encoder_sem > 0
    \/ enc_pc = "send"
    \/ \E s \in Streams : sent_log[s] # << >>

C3_StartupBarrier ==
    /\ [](TransmissionReleased => AllStarted)
    /\ [](main_pc \in {"seed", "sleep"} => AllStarted)
    /\ (AllStarted ~> (main_pc = "sleep"))

C3_Witness ==
    /\ AllStarted
    /\ main_pc = "sleep"
    /\ enc_pc = "send"

\* C4: when a transmit of one stream was rejected (and nothing else went
\* wrong), the encoder thread never blocks for good on lc3_encoder_sem while
\* another stream is still good.
C4_OthersKeepAdvancing ==
    ( /\ codec_cfg = "valid"
      /\ \A s \in Streams : enc_errs[s] = 0
      /\ \E s \in Streams : rejects[s] > 0
      /\ \E s \in Streams : rejects[s] = 0 )
    => ~Stalled

\* C5: once a transmit of stream s was rejected, no later send_data passes a
\* buffer of s to bt_bap_stream_send.
C5_RejectedStreamExcluded ==
    [][\A s \in Streams : rejects[s] > 0 => sent_log'[s] = sent_log[s]]_vars

\* C6: a send_data call in which lc3_encode fails for stream s issues no
\* transmit for s, leaves the buffer in tx_pool, leaves seq_num and sent_cnt
\* of s as they were, and the encoder thread goes on with the next stream of
\* the cycle (or the next cycle) instead of returning.
C6_EncodeErrorSkipsOnlyThisSend ==
    [][\A s \in Streams :
        enc_errs'[s] # enc_errs[s] =>
            /\ sent_log' = sent_log
            /\ iso_pending' = iso_pending
            /\ tx_pool' = tx_pool
            /\ seq_num' = seq_num
            /\ sent_cnt' = sent_cnt
            /\ IF s + 1 < STREAM_COUNT
               THEN enc_pc' = "send" /\ enc_i' = s + 1 /\ cycles' = cycles
               ELSE enc_pc' = "take" /\ enc_i' = 0 /\ cycles' = cycles + 1
      ]_vars

C6_Witness ==
    /\ enc_errs[0] = 1
    /\ sent_log[0] = << >>
    /\ Len(sent_log[STREAM_COUNT - 1]) = 1
    /\ cycles = 1

\* C7: with no transport rejection, whatever encode errors happened, the
\* encoder thread never blocks for good on lc3_encoder_sem.
C7_EncodeErrorsRecoverable ==
    ( /\ codec_cfg = "valid"
      /\ \A s \in Streams : rejects[s] = 0 )
    => ~Stalled

\* C8: the credits in lc3_encoder_sem, those taken by the encoder thread and
\* not yet spent, and the buffers accepted and not yet confirmed never add
\* up to more than main has seeded, which is at most TOTAL_BUF_NEEDED; and no
\* give of lc3_encoder_sem is dropped at the limit.
C8_CreditsConserved ==
    /\ lc3_encoder_sem + CreditsHeld + PendingTotal <= SeedsGiven
    /\ SeedsGiven <= TOTAL_BUF_NEEDED
    /\ ~give_dropped

C8_Witness ==
    /\ main_pc = "sleep"
    /\ lc3_encoder_sem + CreditsHeld + PendingTotal = TOTAL_BUF_NEEDED
    /\ lc3_encoder_sem > 0
    /\ CreditsHeld > 0
    /\ PendingTotal > 0
    /\ cycles >= 2

\* C9: at the end of k fault-free cycles every stream has sent_cnt = k and
\* the sequence numbers passed to the transport are exactly 0 .. k-1.
C9_KCyclesKFrames ==
    (FaultFree /\ enc_pc = "take") =>
        \A s \in Streams :
            /\ sent_cnt[s] = cycles
            /\ sent_log[s] = [k \in 1 .. cycles |-> k - 1]

C9_Witness ==
    /\ FaultFree
    /\ enc_pc = "take"
    /\ cycles = 4
    /\ \A s \in Streams : sent_cnt[s] = 4

\* C10: under fault-free operation, once the credits are seeded the encoder
\* thread completes every cycle up to MaxCycles and every stream's sent_cnt
\* reaches MaxCycles (no deadlock between the thread, lc3_encoder_sem and
\* tx_pool).
C10_RunsOn ==
    (FaultFree /\ main_pc = "sleep")
        ~> ( \/ ~FaultFree
             \/ /\ cycles = MaxCycles
                /\ \A s \in Streams : sent_cnt[s] = MaxCycles )

C10_Witness ==
    /\ FaultFree
    /\ main_pc = "sleep"
    /\ cycles = MaxCycles
    /\ \A s \in Streams : sent_cnt[s] = MaxCycles

\* lc3_setup_encoder has returned for stream s.
SetupReturned(s) ==
    \/ enc_pc \in {"take", "send"}
    \/ enc_pc = "setup" /\ s < enc_i

\* The encoder thread has met a setup error: it returned on an unresolved
\* parameter, or lc3_setup_encoder gave NULL for a stream.
SetupFailed ==
    \/ enc_pc = "returned"
    \/ \E s \in Streams : SetupReturned(s) /\ lc3_encoder[s] = "NULL"

\* C11: in every cycle each stream gets exactly one send_data call, in
\* ascending index order, and the first call of a cycle comes only after
\* STREAM_COUNT takes of lc3_encoder_sem were made for that cycle.
C11_OnePerStreamInOrder ==
    /\ \A s \in Streams : attempts[s] \in {cycles, cycles + 1}
    /\ \A s, u \in Streams : s < u => attempts[s] >= attempts[u]
    /\ \A s \in Streams : takes >= STREAM_COUNT * attempts[s]
    /\ takes <= STREAM_COUNT * (cycles + 1)

C11_Witness ==
    /\ cycles = 2
    /\ attempts[0] = 3
    /\ attempts[STREAM_COUNT - 1] = 2
    /\ takes = 3 * STREAM_COUNT

\* C12: whenever a started callback has been delivered, lc3_setup_encoder
\* has returned for every stream.
C12_EncodersBeforeStarted ==
    (\E s \in Streams : bis_started[s]) => \A s \in Streams : SetupReturned(s)

\* C13: once the encoder thread has met a setup error, main makes no
\* further startup progress (it may only return): it starts no broadcast and
\* seeds no credit.
C13_SetupErrorAbortsStartup ==
    [][SetupFailed => (main_vars' = main_vars \/ main_pc' = "returned")]_vars

\* C17: when a startup step of main has failed, main has returned, no
\* credit was seeded or taken and no send_data call was made, whatever the
\* encoder thread did meanwhile.
C17_StartupFailureAborts ==
    main_err # "none" =>
        /\ main_pc = "returned"
        /\ SeedsGiven = 0
        /\ lc3_encoder_sem = 0
        /\ takes = 0
        /\ \A s \in Streams : attempts[s] = 0 /\ sent_log[s] = << >> /\ iso_pending[s] = 0

C17_Witness ==
    /\ main_err = "bt_bap_broadcast_source_start"
    /\ main_pc = "returned"
    /\ enc_pc = "take"

\* C18: after an external stop request the stop takes effect at the next
\* cycle boundary: the cycle in progress may finish, and no send_data call
\* is made in a later one.
C18_NoSendAfterStop ==
    stop_cycle >= 0 => \A s \in Streams : attempts[s] <= stop_cycle + 1

\* C19: when every stream has had a transmit rejected and the pipeline has
\* come to a halt, the coordinator has left Streaming for Stopping.
C19_AllFailedForcesStopping ==
    ( /\ \A s \in Streams : rejects[s] > 0
      /\ enc_pc = "take"
      /\ lc3_encoder_sem = 0
      /\ SeedsGiven = TOTAL_BUF_NEEDED
      /\ \A s \in Streams : iso_pending[s] = 0 )
    => main_pc = "stopping"

\* ============================================== setup_broadcast_source
\* The stream and subgroup counts a build can be configured with: Zephyr's
\* Kconfig keeps CONFIG_BT_BAP_BROADCAST_SRC_SUBGROUP_COUNT within
\* 1..CONFIG_BT_BAP_BROADCAST_SRC_STREAM_COUNT.
MaxConfigCount == 10

SubgroupInit ==
    /\ codec_cfg = "valid"
    /\ CoreStart
    /\ FeedStart
    /\ ScanStart
    /\ setup \in
           UNION { { [pc |-> "setup", S |-> S, G |-> G, subgroup_param |-> << >>] :
                       G \in 1..S } : S \in 1..MaxConfigCount }

\* const size_t streams_per_subgroup =
\*     ARRAY_SIZE(stream_params) / ARRAY_SIZE(subgroup_param);
streams_per_subgroup(S, G) == S \div G

\* subgroup_param[i].params = stream_params + i * streams_per_subgroup with
\* params_count = streams_per_subgroup, as the set of indices it covers.
subgroup_streams(i, S, G) ==
    { i * streams_per_subgroup(S, G) + k : k \in 0..(streams_per_subgroup(S, G) - 1) }

setup_broadcast_source ==
    /\ setup.pc = "setup"
    /\ setup' =
           [setup EXCEPT
               !.subgroup_param =
                   [i \in 0..(setup.G - 1) |-> subgroup_streams(i, setup.S, setup.G)],
               !.pc = "created"]
    /\ UNCHANGED << source_vars, capture, scanner >>

SubgroupNext == setup_broadcast_source

SubgroupSpec == SubgroupInit /\ [][SubgroupNext]_vars

\* C16: for every configured stream count S and subgroup count G,
\* setup_broadcast_source gives every subgroup a non-empty set of streams,
\* the sets are pairwise disjoint and every stream of 0..S-1 is in exactly
\* one of them, also when S is not a multiple of G.
C16_SubgroupsPartitionStreams ==
    setup.pc = "created" =>
        /\ \A i \in 0..(setup.G - 1) : setup.subgroup_param[i] # {}
        /\ \A i, k \in 0..(setup.G - 1) :
               i # k => setup.subgroup_param[i] \cap setup.subgroup_param[k] = {}
        /\ \A j \in 0..(setup.S - 1) :
               \E i \in 0..(setup.G - 1) : j \in setup.subgroup_param[i]
        /\ \A i \in 0..(setup.G - 1) : setup.subgroup_param[i] \subseteq 0..(setup.S - 1)

\* ================================================== the USB capture path
\* ring_buf_put(buf, data, size): copies as many of the bytes as there is
\* room for, in order, behind the bytes already held, and returns how many.
ring_buf_put_size(ring, data) == Min(Len(data), AUDIO_RING_BUF_BYTES - Len(ring))

ring_buf_put(ring, data) == ring \o SubSeq(data, 1, ring_buf_put_size(ring, data))

\* ring_buf_get(buf, data, size): moves out the oldest bytes, at most size of
\* them, and returns how many.
ring_buf_get_size(ring, size) == Min(size, Len(ring))

ring_buf_get_data(ring, size) == SubSeq(ring, 1, ring_buf_get_size(ring, size))

ring_buf_get(ring, size) == SubSeq(ring, ring_buf_get_size(ring, size) + 1, Len(ring))

\* for (i = 0U; i < MIN(ARRAY_SIZE(streams), 2); i++): the streams fed.
FedStreams == 0..(Min(STREAM_COUNT, 2) - 1)

\* ratio = USB_SAMPLE_RATE / USB_DOWNSAMPLE_RATE
usb_ratio == USB_SAMPLE_RATE \div USB_DOWNSAMPLE_RATE

\* nsamples = size / (sizeof(int16_t) * USB_CHANNELS * ratio)
usb_nsamples(size) == size \div (2 * USB_CHANNELS * usb_ratio)

\* The sizes the USB stack delivers: nothing, less than one downsampled
\* sample, and whole samples up to what usb_pcm_data has room for.
UsbSizes ==
    {0, 2 * USB_CHANNELS} \cup
    { k * 2 * USB_CHANNELS * usb_ratio : k \in 1..USB_NUM_SAMPLES }

\* pcm: the interleaved 16-bit samples of the count-th buffer, 0-based. Every
\* sample of every buffer is different and none is 0.
UsbPcm(count, size) ==
    [j \in 0..((size \div 2) - 1) |-> 256 * (count + 1) + j + 1]

\* usb_pcm_data[c][i] = pcm[j + c], j += USB_CHANNELS * ratio
downsample(pcm, c, nsamples) ==
    [i \in 1..nsamples |-> pcm[(i - 1) * USB_CHANNELS * usb_ratio + c]]

\* Mutant of overflow_reported: the message is never printed.
overflow_reported_never(size_put, wanted) == FALSE

\* if (size_put < nsamples * USB_BYTES_PER_SAMPLE) printk("Not enough room ...")
overflow_reported(size_put, wanted) == size_put < wanted

data_received(buffer, size) ==
    /\ capture.count < MaxUsbCallbacks
    /\ IF buffer = "NULL" \/ size = 0
       THEN UNCHANGED capture
       ELSE LET pcm == UsbPcm(capture.count, size)
                nsamples == usb_nsamples(size)
                data == [c \in 0..(USB_CHANNELS - 1) |->
                            Int16Bytes(downsample(pcm, c, nsamples))]
            IN  capture' =
                    [capture EXCEPT
                        !.usb_pcm_data = data,
                        !.audio_ring_buf =
                            [s \in Streams |->
                                IF s \in FedStreams
                                THEN ring_buf_put(capture.audio_ring_buf[s], data[s])
                                ELSE capture.audio_ring_buf[s]],
                        !.overflow_reports =
                            [s \in Streams |->
                                IF /\ s \in FedStreams
                                   /\ overflow_reported(
                                          ring_buf_put_size(capture.audio_ring_buf[s],
                                                            data[s]),
                                          nsamples * USB_BYTES_PER_SAMPLE)
                                THEN capture.overflow_reports[s] + 1
                                ELSE capture.overflow_reports[s]],
                        !.count = capture.count + 1]
    /\ UNCHANGED << source_vars, setup, scanner >>

DataReceived ==
    \E buffer \in {"NULL", "buf"}, size \in UsbSizes : data_received(buffer, size)

\* send_data, the part that fills send_pcm_data from the stream's ring buffer.
send_data_fill(s) ==
    /\ LET ring == capture.audio_ring_buf[s]
           size == ring_buf_get_size(ring, sizeof_send_pcm_data)
       IN  capture' =
               [capture EXCEPT
                   !.send_pcm_data =
                       ring_buf_get_data(ring, sizeof_send_pcm_data) \o
                       (IF size < sizeof_send_pcm_data
                        THEN Zeros(sizeof_send_pcm_data - size)
                        ELSE << >>),
                   !.audio_ring_buf[s] = ring_buf_get(ring, sizeof_send_pcm_data),
                   !.fill_stream = s]
    /\ UNCHANGED << source_vars, setup, scanner >>

FeedFill == \E s \in Streams : send_data_fill(s)

FeedInit ==
    /\ codec_cfg = "valid"
    /\ CoreStart
    /\ SubgroupIdle
    /\ ScanStart
    /\ FeedStart

FeedNext ==
    \/ DataReceived
    \/ FeedFill

FeedSpec == FeedInit /\ [][FeedNext]_vars

\* C14: when send_data fills the frame from a ring buffer holding fewer bytes
\* than sizeof(send_pcm_data), the frame has exactly that length, starts with
\* the bytes of the ring buffer in order, is zero in the rest, and exactly
\* one shortfall is reported.
C14_ShortfallPaddedAndReported ==
    [][(capture'.count = capture.count /\ capture'.fill_stream \in Streams) =>
        LET ring == capture.audio_ring_buf[capture'.fill_stream]
        IN  Len(ring) < sizeof_send_pcm_data =>
                /\ Len(capture'.send_pcm_data) = sizeof_send_pcm_data
                /\ SubSeq(capture'.send_pcm_data, 1, Len(ring)) = ring
                /\ \A k \in (Len(ring) + 1)..sizeof_send_pcm_data :
                       capture'.send_pcm_data[k] = 0
                /\ capture'.audio_ring_buf[capture'.fill_stream] = << >>
                /\ capture'.shortfall_reports = capture.shortfall_reports + 1]_vars

\* The last n bytes of a sequence.
LastBytes(seq, n) == SubSeq(seq, Len(seq) - n + 1, Len(seq))

MaxFields == 3
MaxAdverts == 1

BT_DATA_SVC_DATA16 == 22
BT_DATA_BROADCAST_NAME == 48
BT_UUID_SIZE_16 == 2
BT_AUDIO_BROADCAST_ID_SIZE == 3
BT_UUID_BROADCAST_AUDIO == 6226
BT_AUDIO_BROADCAST_NAME_LEN_MIN == 4
BT_AUDIO_BROADCAST_NAME_LEN_MAX == 128

\* data->type: the two types of the switch and one of its default case
\* (9, a complete local name).
AdTypes == {BT_DATA_SVC_DATA16, BT_DATA_BROADCAST_NAME, 9}

\* Payloads that start like 16-bit service data: too short, with the
\* Broadcast Audio UUID 0x1852 (little-endian 82, 24), with another UUID,
\* and longer than UUID and id.
SvcPayloads ==
    { << >>, <<82, 24>>, <<82, 24, 1, 2>>, <<82, 24, 1, 2, 3>>,
      <<82, 24, 255, 255, 255>>, <<82, 24, 0, 0, 0>>, <<83, 24, 1, 2, 3>>,
      <<82, 25, 1, 2, 3>>, <<82, 24, 4, 5, 6, 7>> }

\* Payloads that look like names, of the lengths around both limits: plain
\* ASCII, with a NUL inside, ending in a whole two-byte UTF-8 character
\* (195, 169) and ending in the first byte of one.
NameLens ==
    { BT_AUDIO_BROADCAST_NAME_LEN_MIN - 1, BT_AUDIO_BROADCAST_NAME_LEN_MIN,
      BT_AUDIO_BROADCAST_NAME_LEN_MAX, BT_AUDIO_BROADCAST_NAME_LEN_MAX + 1 }

NamePayloads ==
    UNION { { [k \in 1..n |-> 65],
              [k \in 1..n |-> IF k = 3 THEN 0 ELSE 66],
              [k \in 1..n |-> IF k = n - 1 THEN 195 ELSE IF k = n THEN 169 ELSE 67],
              [k \in 1..n |-> IF k = n THEN 195 ELSE 68] } : n \in NameLens }

AdFields == [type : AdTypes, data : SvcPayloads \cup NamePayloads]

\* strncpy(dst, src, n - 1); dst[n - 1] = 0: the string dst then holds, the
\* bytes of src before its first NUL.
strncpy(src) ==
    LET nuls == { k \in 1..Len(src) : src[k] = 0 }
    IN  IF nuls = {}
        THEN src
        ELSE SubSeq(src, 1, (CHOOSE k \in nuls : \A j \in nuls : k <= j) - 1)

\* utf8_trunc: the index of the byte the backwards search stops at, the
\* first byte of the last UTF-8 sequence or the start of the string.
utf8_seq_start(str) ==
    CHOOSE p \in 1..Len(str) :
        /\ str[p] >= 192 \/ p = 1
        /\ \A q \in (p + 1)..Len(str) : str[q] < 192

\* utf8_trunc: drops the last UTF-8 sequence of the string when it is not
\* whole.
utf8_trunc(str) ==
    IF str = << >> \/ str[Len(str)] < 128
    THEN str
    ELSE LET p == utf8_seq_start(str)
             bytes_truncated == Len(str) - p + 1
             whole == IF str[p] >= 240 THEN bytes_truncated = 4
                      ELSE IF str[p] >= 224 THEN bytes_truncated = 3
                      ELSE IF str[p] >= 192 THEN bytes_truncated = 2
                      ELSE FALSE
         IN  IF whole THEN str ELSE SubSeq(str, 1, p - 1)

\* utf8_lcpy(dst, src, n) with n = data_len + 1
utf8_lcpy(src) == utf8_trunc(strncpy(src))

\* sys_get_le24
sys_get_le24(data, at) == data[at] + 256 * data[at + 1] + 65536 * data[at + 2]

\* bt_uuid_create(&adv_uuid.uuid, data->data, BT_UUID_SIZE_16): the value
\* of the 16-bit UUID.
bt_uuid_create(data) == data[1] + 256 * data[2]

\* Mutant of broadcast_source_found: the parse stops once the id is found.
broadcast_source_found_stop_on_id(info, data) ==
    IF data.type = BT_DATA_SVC_DATA16
    THEN IF Len(data.data) < BT_UUID_SIZE_16 + BT_AUDIO_BROADCAST_ID_SIZE
         THEN [info |-> info, cont |-> TRUE]
         ELSE IF bt_uuid_create(data.data) # BT_UUID_BROADCAST_AUDIO
         THEN [info |-> info, cont |-> TRUE]
         ELSE [info |-> [info EXCEPT !.broadcast_id =
                            sys_get_le24(data.data, BT_UUID_SIZE_16 + 1)],
               cont |-> FALSE]
    ELSE IF data.type = BT_DATA_BROADCAST_NAME
    THEN IF ~(Len(data.data) \in
                BT_AUDIO_BROADCAST_NAME_LEN_MIN..BT_AUDIO_BROADCAST_NAME_LEN_MAX)
         THEN [info |-> info, cont |-> TRUE]
         ELSE [info |-> [info EXCEPT !.broadcast_name = utf8_lcpy(data.data)],
               cont |-> TRUE]
    ELSE [info |-> info, cont |-> TRUE]

\* broadcast_source_found(data, user_data): sr_info afterwards and the value
\* returned, which tells bt_data_parse whether to go on.
broadcast_source_found(info, data) ==
    IF data.type = BT_DATA_SVC_DATA16
    THEN IF Len(data.data) < BT_UUID_SIZE_16 + BT_AUDIO_BROADCAST_ID_SIZE
         THEN [info |-> info, cont |-> TRUE]
         ELSE IF bt_uuid_create(data.data) # BT_UUID_BROADCAST_AUDIO
         THEN [info |-> info, cont |-> TRUE]
         ELSE [info |-> [info EXCEPT !.broadcast_id =
                            sys_get_le24(data.data, BT_UUID_SIZE_16 + 1)],
               cont |-> TRUE]
    ELSE IF data.type = BT_DATA_BROADCAST_NAME
    THEN IF ~(Len(data.data) \in
                BT_AUDIO_BROADCAST_NAME_LEN_MIN..BT_AUDIO_BROADCAST_NAME_LEN_MAX)
         THEN [info |-> info, cont |-> TRUE]
         ELSE [info |-> [info EXCEPT !.broadcast_name = utf8_lcpy(data.data)],
               cont |-> TRUE]
    ELSE [info |-> info, cont |-> TRUE]

\* BT_GAP_ADV_PROP_CONNECTABLE is BIT(0) of adv_props; BIT(1) is
\* BT_GAP_ADV_PROP_SCANNABLE.
BT_GAP_ADV_PROP_CONNECTABLE == 1

\* x & bit, for a mask of one bit.
BitAnd(x, bit) == ((x \div bit) % 2) * bit

\* info->adv_props and info->interval of the reports received: the
\* connectable and the scannable bit in every combination, without and with
\* a periodic advertising interval.
AdvInfos == [adv_props : 0..3, interval : {0, 1}]

\* Mutant of adv_dropped: no advertiser is dropped.
adv_dropped_never(info) == FALSE

\* if ((info->adv_props & BT_GAP_ADV_PROP_CONNECTABLE) != 0 ||
\*     info->interval == 0) return;
adv_dropped(info) ==
    \/ BitAnd(info.adv_props, BT_GAP_ADV_PROP_CONNECTABLE) # 0
    \/ info.interval = 0

\* broadcast_scan_recv up to bt_data_parse: connectable advertisers and
\* advertisers without periodic interval are dropped.
broadcast_scan_recv(info, nfields) ==
    /\ scanner.pc = "idle"
    /\ scanner.reports < MaxAdverts
    /\ scanner' =
           [scanner EXCEPT
               !.adv_info = info,
               !.sr_info = sr_info_zero,
               !.parsed = 0,
               !.pc = IF adv_dropped(info) THEN "idle" ELSE "parsing",
               !.ad_left = IF adv_dropped(info) THEN @ ELSE nfields]
    /\ UNCHANGED << source_vars, setup, capture >>

ScanRecv ==
    \E info \in AdvInfos, nfields \in 0..MaxFields : broadcast_scan_recv(info, nfields)

\* bt_data_parse: one call of broadcast_source_found on the next field; the
\* parse ends when the callback returns false.
ScanField ==
    /\ scanner.pc = "parsing"
    /\ scanner.ad_left > 0
    /\ \E data \in AdFields :
           LET r == broadcast_source_found(scanner.sr_info, data)
           IN  scanner' =
                   [scanner EXCEPT
                       !.sr_info = r.info,
                       !.ad_left = IF r.cont THEN @ - 1 ELSE 0,
                       !.last_field = data,
                       !.parsed = @ + 1]
    /\ UNCHANGED << source_vars, setup, capture >>

\* broadcast_scan_recv after bt_data_parse: LOG_INF("Found broadcast ...").
ScanReport ==
    /\ scanner.pc = "parsing"
    /\ scanner.ad_left = 0
    /\ scanner' = [scanner EXCEPT !.reports = @ + 1, !.pc = "idle"]
    /\ UNCHANGED << source_vars, setup, capture >>

ScanInit ==
    /\ codec_cfg = "valid"
    /\ CoreStart
    /\ SubgroupIdle
    /\ FeedStart
    /\ ScanStart

ScanNext ==
    \/ ScanRecv
    \/ ScanField
    \/ ScanReport

ScanSpec == ScanInit /\ [][ScanNext]_vars

\* A 16-bit service-data field of length >= 5 whose UUID is Broadcast Audio.
ValidIdField(f) ==
    /\ f.type = BT_DATA_SVC_DATA16
    /\ Len(f.data) >= 5
    /\ f.data[1] = 82
    /\ f.data[2] = 24

\* A broadcast-name field whose length is within the limits.
ValidNameField(f) ==
    /\ f.type = BT_DATA_BROADCAST_NAME
    /\ Len(f.data) >= BT_AUDIO_BROADCAST_NAME_LEN_MIN
    /\ Len(f.data) <= BT_AUDIO_BROADCAST_NAME_LEN_MAX

IsPrefix(a, b) == Len(a) <= Len(b) /\ a = SubSeq(b, 1, Len(a))

\* C20: the parse starts from id 0 and an empty name; each field sets
\* broadcast_id exactly when it is 16-bit service data of length >= 5 with
\* the Broadcast Audio UUID, to the 24-bit little-endian value after the
\* UUID; it sets broadcast_name exactly when it is a broadcast-name field of
\* a length within the limits, from that field's bytes (all of them when
\* they are plain ASCII); every other field leaves both unchanged; and the
\* parse always goes on to the next field.
C20_ParseExtractsIdAndName ==
    [][/\ (scanner.pc = "idle" /\ scanner'.pc = "parsing")
            => scanner'.sr_info = sr_info_zero
       /\ scanner'.parsed = scanner.parsed + 1 =>
            LET f == scanner'.last_field
                before == scanner.sr_info
                after == scanner'.sr_info
            IN  /\ after.broadcast_id =
                       IF ValidIdField(f)
                       THEN f.data[3] + 256 * f.data[4] + 65536 * f.data[5]
                       ELSE before.broadcast_id
                /\ IF ValidNameField(f)
                   THEN /\ IsPrefix(after.broadcast_name, f.data)
                        /\ (\A k \in 1..Len(f.data) : f.data[k] \in 1..127)
                               => after.broadcast_name = f.data
                   ELSE after.broadcast_name = before.broadcast_name
                /\ scanner'.ad_left = scanner.ad_left - 1
                /\ scanner'.pc = "parsing"]_vars

\* Both values were found and a later field of another type left them
\* alone.
C20_Witness ==
    /\ scanner.pc = "parsing"
    /\ scanner.parsed = 3
    /\ scanner.ad_left = 0
    /\ scanner.sr_info.broadcast_id = 197121
    /\ Len(scanner.sr_info.broadcast_name) = BT_AUDIO_BROADCAST_NAME_LEN_MAX
    /\ scanner.last_field.type = 9

\* ============================================= sequence number and pool
\* C21: for every stream that has had its started callback, whenever the
\* encoder thread is between two cycles, seq_num equals sent_cnt modulo 2^16,
\* whatever mix of accepted sends, encode errors and rejections came before.
C21_SeqNumIsSentCnt ==
    \A s \in Streams :
        (bis_started[s] /\ enc_pc = "take") => seq_num[s] = sent_cnt[s] % U16

\* C22: tx_pool never leaks and never starves the encoder thread: every
\* buffer is either free or held by the transport until its sent
\* notification, the free buffers are at least the credits in
\* lc3_encoder_sem plus the credits the thread has taken and not yet spent,
\* and whenever the thread is about to call send_data a buffer is free.
C22_PoolNeverStarves ==
    /\ tx_pool + PendingTotal = TOTAL_BUF_NEEDED
    /\ tx_pool >= lc3_encoder_sem + CreditsHeld
    /\ enc_pc = "send" => tx_pool > 0

\* The thread is about to send with its last credit of the cycle and exactly
\* as many free buffers as credits are left, after a rejection and an encode
\* error have each returned their buffer.
C22_Witness ==
    /\ enc_pc = "send"
    /\ CreditsHeld = 1
    /\ \E s \in Streams : rejects[s] > 0
    /\ \E s \in Streams : enc_errs[s] > 0
    /\ PendingTotal > 0
    /\ tx_pool = TOTAL_BUF_NEEDED - PendingTotal

\* ============================================== the scanner's filter
\* An advertiser that is non-connectable and periodic.
NonConnectablePeriodic(info) ==
    /\ info.adv_props \in {0, 2}
    /\ info.interval # 0

\* C23: an advertisement of a connectable advertiser or of one with interval
\* 0 is dropped: no field is parsed and nothing is logged. Every other
\* advertisement is parsed, every field of it, and then reported exactly
\* once; nothing is reported without such an advertisement.
C23_ReportsIffNonConnectablePeriodic ==
    [][/\ scanner.pc = "idle" =>
            /\ scanner'.reports = scanner.reports
            /\ scanner'.parsed = 0
            /\ scanner'.pc =
                   IF NonConnectablePeriodic(scanner'.adv_info)
                   THEN "parsing"
                   ELSE "idle"
       /\ scanner.pc = "parsing" =>
            /\ NonConnectablePeriodic(scanner.adv_info)
            /\ scanner'.adv_info = scanner.adv_info
            /\ IF scanner'.pc = "idle"
               THEN /\ scanner.ad_left = 0
                    /\ scanner'.reports = scanner.reports + 1
                    /\ scanner'.parsed = scanner.parsed
               ELSE /\ scanner.ad_left > 0
                    /\ scanner'.reports = scanner.reports
                    /\ scanner'.parsed = scanner.parsed + 1
                    /\ scanner'.parsed + scanner'.ad_left =
                           scanner.parsed + scanner.ad_left]_vars

\* A scannable, non-connectable periodic advertisement of two fields was
\* parsed and reported.
C23_Witness ==
    /\ scanner.pc = "idle"
    /\ scanner.adv_info = [adv_props |-> 2, interval |-> 1]
    /\ scanner.parsed = 2
    /\ scanner.reports = 1

====
